---- MODULE Spec2Model ----
(***************************************************************************)
(* A model of fpl (src/main.rs): the extraction of a "full performance     *)
(* level" pay grade from free text.                                        *)
(*                                                                         *)
(* A Rust string is a sequence of one-character strings.  Every &str the   *)
(* parsers handle is a suffix or a sub-slice of one buffer, so a slice is  *)
(* its byte offset in the buffer (0-based) and, where it matters, its      *)
(* length: parser input "s" is the offset i (the slice t[i..]), and a      *)
(* parser's result is [ok, rest, a, n]: remaining input t[rest..] and the  *)
(* output slice t[a..a+n].  A function of src/main.rs that binds several   *)
(* intermediate results is split at those bindings: each part takes the    *)
(* results bound so far as parameters.                                     *)
(***************************************************************************)
EXTENDS Integers, Naturals, Sequences, FiniteSets, TLC

VARIABLES
  text,     \* the string a parser is applied to: its argument s
  fn,       \* SpecGrade: the function that was applied
  pc,       \* the position in the specification's program
  res,      \* the result of grade, max_grade or get_fpl_grade
  st,       \* max_grade's loop: [done, s, a, n], max_grade being t[a..a+n]
  scan,     \* get_fpl_grade: [pc, family, off, res], the scan and its offset
  span,     \* get_match_prefix_and_suffix's result: [prefix, suffix]
  input,    \* main: the records read_records returned
  records,  \* main: the records vector
  args,     \* main: [unique, html]
  idx,      \* main: how many records the print loop has handled
  rows      \* main: the rows printed

vars == <<text, fn, pc, res, st, scan, span, input, records, args, idx, rows>>

(***************************************************************************)
(* Characters                                                              *)
(***************************************************************************)
UpperCase ==
  <<"A","B","C","D","E","F","G","H","I","J","K","L","M",
    "N","O","P","Q","R","S","T","U","V","W","X","Y","Z">>

LowerCase ==
  <<"a","b","c","d","e","f","g","h","i","j","k","l","m",
    "n","o","p","q","r","s","t","u","v","w","x","y","z">>

Range(f) == {f[k] : k \in DOMAIN f}

Digits == {"0","1","2","3","4","5","6","7","8","9"}

UpperSet == Range(UpperCase)

\* nom's AsChar::is_alpha on char: the ASCII letters
Alphas == UpperSet \cup Range(LowerCase)

\* nom's multispace0: space, tab, carriage return, line feed
MultiSpace == {" ", "\t", "\r", "\n"}

\* char::is_whitespace, on ASCII: split_whitespace's separators
WhiteSpace == {" ", "\t", "\r", "\n", "\f"}

\* char::to_lowercase on the ASCII range
to_lowercase(c) ==
  IF c \in UpperSet
    THEN LowerCase[CHOOSE k \in DOMAIN UpperCase : UpperCase[k] = c]
    ELSE c

SetMin(S) == CHOOSE x \in S : \A y \in S : x <= y

\* the offset of the first character at or after i that is not in S
RECURSIVE RunEnd(_, _, _)
RunEnd(t, i, S) ==
  IF i < Len(t) /\ t[i + 1] \in S THEN RunEnd(t, i + 1, S) ELSE i

\* length of the longest run of characters of S at offset i of t
Run(t, i, S) == RunEnd(t, i, S) - i

\* the characters of the slice t[a..a+n]
Slice(t, a, n) == SubSeq(t, a + 1, a + n)

(***************************************************************************)
(* Parser results                                                          *)
(***************************************************************************)
Fail == [ok |-> FALSE, rest |-> 0, a |-> 0, n |-> 0]

Ok(rest, a, n) == [ok |-> TRUE, rest |-> rest, a |-> a, n |-> n]

\* r, or else the alternative q
OrElse(r, q) == IF r.ok THEN r ELSE q

\* opt(p): the offset after p's match, or the offset i it was tried at
RestOr(r, i) == IF r.ok THEN r.rest ELSE i

(***************************************************************************)
(* nom primitives, as src/main.rs uses them                                *)
(***************************************************************************)
\* multispace0: the offset after the leading whitespace; never fails
multispace0(t, i) == RunEnd(t, i, MultiSpace)

\* tag(w): the literal w, compared exactly
tag(w, t, i) ==
  IF i + Len(w) <= Len(t) /\ \A k \in 1..Len(w) : t[i + k] = w[k]
    THEN Ok(i + Len(w), i, Len(w))
    ELSE Fail

\* tag_no_case(w): the literal w, compared character by character in lower case
tag_no_case(w, t, i) ==
  IF i + Len(w) <= Len(t)
     /\ \A k \in 1..Len(w) : to_lowercase(t[i + k]) = to_lowercase(w[k])
    THEN Ok(i + Len(w), i, Len(w))
    ELSE Fail

\* opt(tag(w))
opt_tag(w, t, i) == RestOr(tag(w, t, i), i)

\* opt(tag_no_case(w))
opt_tag_no_case(w, t, i) == RestOr(tag_no_case(w, t, i), i)

\* char(c)
char(c, t, i) ==
  IF i < Len(t) /\ t[i + 1] = c THEN Ok(i + 1, i, 1) ELSE Fail

\* opt(one_of(list)): [rest, ch], ch = "" standing for None
opt_one_of(list, t, i) ==
  IF i < Len(t) /\ t[i + 1] \in list
    THEN [rest |-> i + 1, ch |-> t[i + 1]]
    ELSE [rest |-> i, ch |-> ""]

\* verify(alpha1 or digit1, |s| ...): a run of n >= 1 characters from offset i
\* whose length is in lo..hi
verify_run(i, n, lo, hi) ==
  IF n >= 1 /\ lo <= n /\ n <= hi THEN Ok(i + n, i, n) ELSE Fail

\* verify(alpha1, |s| s.len() == count): the whole letter run, of that length
alphas(count, t, i) == verify_run(i, Run(t, i, Alphas), count, count)

\* verify(digit1, |s| s.len() <= count): the whole digit run, at most that long
max_digits(count, t, i) == verify_run(i, Run(t, i, Digits), 0, count)

\* the parser p, where the one before it parsed
then_max_digits(count, t, c) ==
  IF c.ok THEN max_digits(count, t, c.rest) ELSE Fail

RECURSIVE words_from(_, _, _)
RECURSIVE words_next(_, _, _)
\* words(ws)'s loop: each word after optional whitespace, case-insensitively
words_from(ws, t, i) ==
  IF ws = <<>> THEN Ok(i, i, 0)
  ELSE words_next(ws, t, tag_no_case(Head(ws), t, multispace0(t, i)))

words_next(ws, t, w) ==
  IF w.ok THEN words_from(Tail(ws), t, w.rest) ELSE Fail

\* the output of words is the empty slice &s[0..0]
words_output(r, i) == IF r.ok THEN Ok(r.rest, i, 0) ELSE Fail

words(ws, t, i) == words_output(words_from(ws, t, i), i)

\* one alternative of an alt((...)): a tag, a tag_no_case or a words
Tag(w) == [kind |-> "tag", ws |-> <<w>>]

TagNoCase(w) == [kind |-> "tag_no_case", ws |-> <<w>>]

Words(ws) == [kind |-> "words", ws |-> ws]

Apply(p, t, i) ==
  CASE p.kind = "tag" -> tag(p.ws[1], t, i)
    [] p.kind = "tag_no_case" -> tag_no_case(p.ws[1], t, i)
    [] p.kind = "words" -> words(p.ws, t, i)

\* alt: the first alternative that parses, in order
RECURSIVE alt(_, _, _)
alt(ps, t, i) ==
  IF ps = <<>> THEN Fail
  ELSE OrElse(Apply(Head(ps), t, i), alt(Tail(ps), t, i))

\* opt(alt(...))
opt_alt(ps, t, i) == RestOr(alt(ps, t, i), i)

(***************************************************************************)
(* The grade tokenizer                                                     *)
(***************************************************************************)
\* a variant of grade_series that takes either separator before the grade,
\* not only the one that followed the prefix
grade_series_any_separator(t, sep, gs) ==
  IF ~gs.ok THEN Fail
  ELSE OrElse(then_max_digits(2, t,
                verify_run(gs.rest, Run(t, gs.rest, {"-", "."}), 1, 1)),
              IF gs.n <= 2 THEN gs ELSE Fail)

\* a variant of grade_series without the length test of the first run
grade_series_unchecked(t, sep, gs) ==
  IF ~gs.ok THEN Fail
  ELSE OrElse(then_max_digits(2, t, char(sep, t, gs.rest)), gs)

\* grade(), after a '-' or '.' separator: gs is max_digits(4, s)
grade_series(t, sep, gs) ==
  IF ~gs.ok THEN Fail
  ELSE OrElse(then_max_digits(2, t, char(sep, t, gs.rest)),
              IF gs.n <= 2 THEN gs ELSE Fail)

\* grade(), after the prefix: sp is opt_one_of(" -.", s)
grade_separated(t, sp) ==
  IF sp.ch \in {"", " "}
    THEN max_digits(2, t, opt_tag(<<" ">>, t, sp.rest))
    ELSE grade_series(t, sp.ch, max_digits(4, t, opt_tag(<<" ">>, t, sp.rest)))

\* grade(), after max_digits(2, s) failed: al is alphas(2, s)
grade_prefixed(t, al) ==
  IF ~al.ok THEN Fail
  ELSE grade_separated(t, opt_one_of({" ", "-", "."}, t, al.rest))

grade(t, i) == OrElse(max_digits(2, t, i), grade_prefixed(t, alphas(2, t, i)))

(***************************************************************************)
(* The grade chain                                                         *)
(***************************************************************************)
\* the number a digit string denotes
RECURSIVE Value(_)
Value(ds) ==
  IF ds = <<>> THEN 0
  ELSE 10 * Value(SubSeq(ds, 1, Len(ds) - 1))
       + (CHOOSE d \in 0..9 : ToString(d) = ds[Len(ds)])

\* after a token: whitespace, at most one of ",/", whitespace
skip_separator(t, i) ==
  multispace0(t, opt_one_of({",", "/"}, t, multispace0(t, i)).rest)

\* a variant of max_grade_update that keeps the numerically larger grade
max_grade_update_numeric(t, cur, s, g) ==
  IF g.ok
    THEN IF Value(Slice(t, g.a, g.n)) >= Value(Slice(t, cur.a, cur.n))
           THEN [done |-> FALSE, s |-> g.rest, a |-> g.a, n |-> g.n]
           ELSE [done |-> FALSE, s |-> g.rest, a |-> cur.a, n |-> cur.n]
    ELSE [done |-> TRUE, s |-> s, a |-> cur.a, n |-> cur.n]

\* a variant of max_grade_update that returns the input as it was right
\* after the last token
max_grade_update_rewind(t, cur, s, g) ==
  IF g.ok
    THEN [done |-> FALSE, s |-> g.rest, a |-> g.a, n |-> g.n]
    ELSE [done |-> TRUE, s |-> cur.s, a |-> cur.a, n |-> cur.n]

\* the end of the loop body: g is grade(s) after the separator was skipped to s
max_grade_update(t, cur, s, g) ==
  IF g.ok
    THEN [done |-> FALSE, s |-> g.rest, a |-> g.a, n |-> g.n]
    ELSE [done |-> TRUE, s |-> s, a |-> cur.a, n |-> cur.n]

max_grade_try(t, cur, s) == max_grade_update(t, cur, s, grade(t, s))

\* one pass of max_grade's loop from (s, max_grade) = (cur.s, t[cur.a..cur.a+cur.n])
max_grade_iter(t, cur) == max_grade_try(t, cur, skip_separator(t, cur.s))

\* max_grade's first line: let (mut s, mut max_grade) = grade(s)?
max_grade_enter(g) == [done |-> ~g.ok, s |-> g.rest, a |-> g.a, n |-> g.n]

\* what max_grade returns when its loop is done
max_grade_return(cur) == Ok(cur.s, cur.a, cur.n)

RECURSIVE max_grade_loop(_, _)
RECURSIVE max_grade_continue(_, _)
max_grade_loop(t, cur) == max_grade_continue(t, max_grade_iter(t, cur))

max_grade_continue(t, nx) ==
  IF nx.done THEN max_grade_return(nx) ELSE max_grade_loop(t, nx)

max_grade_from(t, f) == IF f.done THEN Fail ELSE max_grade_loop(t, f)

max_grade(t, i) == max_grade_from(t, max_grade_enter(grade(t, i)))

(***************************************************************************)
(* The phrase families                                                     *)
(***************************************************************************)
\* alt((tag_no_case("full"), tag_no_case("poll")))
fpl_lead ==
  << TagNoCase(<<"f","u","l","l">>),
     TagNoCase(<<"p","o","l","l">>) >>

\* the alternatives after the lead word of fpl()
fpl_body ==
  << Words(<<<<"c","a","r","e","e","r">>, <<"l","a","d","d","e","r">>, <<"g","r","a","d","e">>>>),
     TagNoCase(<<"g","r","a","d","e">>),
     TagNoCase(<<"p","e","f","o","r","m","a","n","c","e">>),
     TagNoCase(<<"p","e","r","f",".">>),
     TagNoCase(<<"p","e","r","f","f","o","r","m","a","n","c","e">>),
     TagNoCase(<<"p","e","r","f","o","r","m","a","n","c","e">>),
     TagNoCase(<<"p","e","r","f","o","r","m","a","n","e">>),
     TagNoCase(<<"p","e","r","f","r","o","m","a","n","c","e">>),
     TagNoCase(<<"p","e","r","o","r","m","a","n","c","e">>),
     TagNoCase(<<"p","r","o","m","o","t","i","o","n">>) >>

\* the optional connective of fpl_grade(), in the order alt tries them
fpl_connective ==
  << Tag(<<"-">>),
     Tag(<<",">>),
     Tag(<<":">>),
     Tag(<<"(","f","p","l",")">>),
     Tag(<<"(">>),
     Tag(<<"=">>),
     Words(<<<<"a","t">>, <<"g","r","a","d","e">>, <<"l","e","v","e","l">>>>),
     TagNoCase(<<"a","t">>),
     Words(<<<<"f","o","r">>, <<"t","h","i","s">>, <<"p","d">>, <<"i","s">>>>),
     Words(<<<<"f","o","r">>, <<"t","h","i","s">>, <<"p","o","s","i","t","i","o","n">>, <<"i","s">>>>),
     Words(<<<<"i","s">>, <<"a","t">>, <<"t","h","e">>>>),
     Words(<<<<"i","s">>, <<"a","t">>>>),
     Words(<<<<"i","s">>, <<"l","e","v","e","l">>, <<":">>>>),
     Words(<<<<"i","s">>, <<"t","h","e">>>>),
     Words(<<<<"m","a","n","a","g","e","m","e","n","t">>, <<"a","n","a","l","y","s","t">>>>),
     TagNoCase(<<"i","s">>),
     Words(<<<<"o","f">>, <<"a">>, <<"c","a","r","e","e","r">>, <<"l","a","d","d","e","r">>, <<"p","o","s","i","t","i","o","n">>>>),
     Words(<<<<"o","f">>, <<"a">>>>),
     Words(<<<<"o","f">>, <<"p","o","s","i","t","i","o","n">>, <<"i","s">>>>),
     Words(<<<<"o","f">>, <<"p","o","s","i","t","i","o","n">>, <<":">>>>),
     Words(<<<<"o","f">>, <<"t","h","e">>, <<"p","o","s","i","t","i","o","n">>, <<"i","s">>>>),
     Words(<<<<"o","f">>, <<"t","h","i","s">>, <<"p","d">>, <<"i","s">>>>),
     Words(<<<<"o","f">>, <<"t","h","i","s">>, <<"p","o","s","i","t","i","o","n">>, <<"i","s">>>>) >>

\* the optional connective of target_grade()
target_connective ==
  << TagNoCase(<<"t","o">>),
     Words(<<<<"p","o","s","i","t","i","o","n">>, <<",">>>>),
     Words(<<<<"p","o","s","i","t","i","o","n">>, <<"p","o","s","t","e","d">>, <<"a","s">>, <<"a","t">>, <<"a">>>>) >>

\* the slice from offset i to offset s
Consumed(i, s) == Ok(s, i, s - i)

\* fpl(), after the lead word and its separator: body is the alt of fpl_body
fpl_level(t, i, body) ==
  IF ~body.ok THEN Fail
  ELSE Consumed(i, opt_tag_no_case(<<"l","e","v","e","l">>, t,
                                   multispace0(t, body.rest)))

\* fpl(), after "fpl" failed: lead is the alt of fpl_lead
fpl_long(t, i, lead) ==
  IF ~lead.ok THEN Fail
  ELSE fpl_level(t, i,
         alt(fpl_body, t, opt_one_of({" ", "-"}, t, lead.rest).rest))

fpl(t, i) ==
  OrElse(tag_no_case(<<"f","p","l">>, t, i),
         fpl_long(t, i, alt(fpl_lead, t, i)))

\* the end of fpl_grade and of target_grade, from the offset after the phrase:
\* whitespace, the optional connective, whitespace, the grade chain
connective_grade(connective, t, s) ==
  max_grade(t, multispace0(t, opt_alt(connective, t, multispace0(t, s))))

\* a variant of fpl_grade_after that goes on without the phrase
fpl_grade_phrase_optional(t, i, f) ==
  connective_grade(fpl_connective, t, RestOr(f, i))

\* fpl_grade(), f being fpl(s)
fpl_grade_after(t, i, f) ==
  IF ~f.ok THEN Fail ELSE connective_grade(fpl_connective, t, f.rest)

fpl_grade(t, i) == fpl_grade_after(t, i, fpl(t, i))

\* target_grade(), g being tag_no_case("target")(s)
target_grade_after(t, g) ==
  IF ~g.ok THEN Fail
  ELSE connective_grade(target_connective, t,
                        opt_tag_no_case(<<"e","d">>, t, g.rest))

target_grade(t, i) ==
  target_grade_after(t, tag_no_case(<<"t","a","r","g","e","t">>, t, i))

(***************************************************************************)
(* The scan over start offsets                                             *)
(***************************************************************************)
Parse(family, t, i) ==
  IF family = "fpl_grade" THEN fpl_grade(t, i) ELSE target_grade(t, i)

\* a variant of many_till_result that gives up where the phrase matched but
\* the parser failed
many_till_result_commit(t, o, r) ==
  IF r.ok THEN [state |-> "ok", off |-> o, res |-> r]
  ELSE IF o < Len(t) /\ ~fpl(t, o).ok
         THEN [state |-> "more", off |-> o + 1, res |-> Fail]
         ELSE [state |-> "err", off |-> o, res |-> Fail]

\* one pass of many_till(anychar, parser)'s loop at offset o, r being the
\* parser's result there: where the parser fails anychar takes one character,
\* and fails at the end of the text
many_till_result(t, o, r) ==
  IF r.ok THEN [state |-> "ok", off |-> o, res |-> r]
  ELSE IF o < Len(t)
         THEN [state |-> "more", off |-> o + 1, res |-> Fail]
         ELSE [state |-> "err", off |-> o, res |-> Fail]

many_till_step(family, t, o) == many_till_result(t, o, Parse(family, t, o))

\* a variant of get_fpl_grade_next that tries target_grade at each offset
\* where fpl_grade failed, before moving on
get_fpl_grade_next_interleaved(family, m) ==
  IF m.state = "ok"
    THEN [pc |-> "some", family |-> family, off |-> m.off, res |-> m.res]
  ELSE IF family = "fpl_grade"
    THEN [pc |-> "scan", family |-> "target_grade",
          off |-> IF m.state = "more" THEN m.off - 1 ELSE m.off, res |-> Fail]
  ELSE IF m.state = "more"
    THEN [pc |-> "scan", family |-> "fpl_grade", off |-> m.off, res |-> Fail]
  ELSE [pc |-> "none", family |-> family, off |-> m.off, res |-> Fail]

\* get_fpl_grade, m being the pass of the scan of `family` just made
get_fpl_grade_next(family, m) ==
  IF m.state = "ok"
    THEN [pc |-> "some", family |-> family, off |-> m.off, res |-> m.res]
  ELSE IF m.state = "more"
    THEN [pc |-> "scan", family |-> family, off |-> m.off, res |-> Fail]
  ELSE IF family = "fpl_grade"
    THEN [pc |-> "scan", family |-> "target_grade", off |-> 0, res |-> Fail]
  ELSE [pc |-> "none", family |-> family, off |-> m.off, res |-> Fail]

\* one step of get_fpl_grade: the scan of `family` at offset o
get_fpl_grade_step(t, family, o) ==
  get_fpl_grade_next(family, many_till_step(family, t, o))

\* get_fpl_grade's first scan starts at offset 0
get_fpl_grade_start ==
  [pc |-> "scan", family |-> "fpl_grade", off |-> 0, res |-> Fail]

RECURSIVE get_fpl_grade_run(_, _)
RECURSIVE get_fpl_grade_continue(_, _)
get_fpl_grade_run(t, sc) ==
  get_fpl_grade_continue(t, get_fpl_grade_step(t, sc.family, sc.off))

get_fpl_grade_continue(t, nx) ==
  IF nx.pc = "scan" THEN get_fpl_grade_run(t, nx) ELSE nx.res

\* Some(grade) is a result that is ok, the grade being its slice; None is Fail
get_fpl_grade(t) == get_fpl_grade_run(t, get_fpl_grade_start)

\* offsets at which the string m occurs in t
Occurrences(t, m) ==
  {j \in 0..(Len(t) - Len(m)) : Slice(t, j, Len(m)) = m}

\* the split of t at offset, n being the length of the match
SplitAt(t, offset, n) ==
  [prefix |-> Slice(t, 0, offset),
   suffix |-> Slice(t, offset + n, Len(t) - (offset + n))]

\* a variant of get_match_prefix_and_suffix that splits at the first
\* occurrence of the grade's characters
get_match_prefix_and_suffix_find(t, a, n) ==
  SplitAt(t, SetMin(Occurrences(t, Slice(t, a, n))), n)

\* s is the whole buffer t, at offset 0, and m the slice t[a..a+n]: the
\* difference of their pointers is a - 0
get_match_prefix_and_suffix(t, a, n) == SplitAt(t, a - 0, n)

(***************************************************************************)
(* Bounds                                                                  *)
(***************************************************************************)
\* longest first digit run of a tokenizer input
MaxRun == 5

\* longest second digit run of a tokenizer input
MaxRun2 == 3

\* most fragments of a grade chain input
MaxChain == 5

\* most fragments of a scanned text
MaxFrags == 4

(***************************************************************************)
(* Values of the variables a specification does not use                    *)
(***************************************************************************)
NoSpan == [prefix |-> <<>>, suffix |-> <<>>]

NoLoop == [done |-> FALSE, s |-> 0, a |-> 0, n |-> 0]

NoScan == [pc |-> "idle", family |-> "fpl_grade", off |-> 0, res |-> Fail]

NoArgs == [unique |-> FALSE, html |-> FALSE]

\* the concatenation of a sequence of strings
RECURSIVE Flatten(_)
Flatten(ss) == IF ss = <<>> THEN <<>> ELSE Head(ss) \o Flatten(Tail(ss))

(***************************************************************************)
(* SpecGrade: grade, max_grade and get_fpl_grade applied to one input      *)
(***************************************************************************)
GradeLeads ==
  { <<>>, <<"f","p","l",":"," ">>,
    <<"T","a","r","g","e","t","e","d"," ","t","o"," ">> }

GradePrefixes == { <<>>, <<"g">>, <<"g","s">>, <<"W","G">>, <<"g","s","a">> }

GradeSeps ==
  { <<>>, <<" ">>, <<"-">>, <<".">>, <<"-"," ">>, <<" "," ">>, <<"-","-">> }

GradeMids == { <<>>, <<"-">>, <<".">>, <<" ">>, <<"x">>, <<"/">> }

GradeTails == { <<>>, <<"x">> }

\* the digit runs "1234..." and "789..."
DigitRun1(k) == [j \in 1..k |-> ToString(j % 10)]

DigitRun2(k) == [j \in 1..k |-> ToString((j + 6) % 10)]

\* lead, prefix, separator, first digit run, middle, second digit run, tail
GradeInput(l, p, s, k1, m, k2, e) ==
  Flatten(<<l, p, s, DigitRun1(k1), m, DigitRun2(k2), e>>)

GradeInit ==
  /\ \E l \in GradeLeads, p \in GradePrefixes, s \in GradeSeps,
        k1 \in 0..MaxRun, m \in GradeMids, k2 \in 0..MaxRun2, e \in GradeTails :
       text = GradeInput(l, p, s, k1, m, k2, e)
  /\ fn = "" /\ pc = "start" /\ res = Fail
  /\ st = NoLoop /\ scan = NoScan /\ span = NoSpan
  /\ input = <<>> /\ records = <<>> /\ args = NoArgs /\ idx = 0 /\ rows = <<>>

CallGrade ==
  /\ pc = "start"
  /\ fn' = "grade" /\ res' = grade(text, 0) /\ pc' = "done"
  /\ UNCHANGED <<text, st, scan, span, input, records, args, idx, rows>>

CallMaxGrade ==
  /\ pc = "start"
  /\ fn' = "max_grade" /\ res' = max_grade(text, 0) /\ pc' = "done"
  /\ UNCHANGED <<text, st, scan, span, input, records, args, idx, rows>>

CallGetFplGrade ==
  /\ pc = "start"
  /\ fn' = "get_fpl_grade" /\ res' = get_fpl_grade(text) /\ pc' = "done"
  /\ UNCHANGED <<text, st, scan, span, input, records, args, idx, rows>>

GradeNext == CallGrade \/ CallMaxGrade \/ CallGetFplGrade

SpecGrade == GradeInit /\ [][GradeNext]_vars

\* the input starts with exactly 2 letters and then '-' or '.'
HyphenPeriodForm(t) ==
  /\ Len(t) >= 3
  /\ t[1] \in Alphas /\ t[2] \in Alphas
  /\ t[3] \in {"-", "."}

\* what C1 says grade() returns on such an input
HyphenPeriodExpected(t) ==
  LET c == t[3]
      p == IF Len(t) >= 4 /\ t[4] = " " THEN 4 ELSE 3
      r == Run(t, p, Digits)
      q == p + r
      g == IF q < Len(t) /\ t[q + 1] = c THEN Run(t, q + 1, Digits) ELSE 0
  IN  IF r = 0 \/ r > 4 THEN Fail
      ELSE IF g \in 1..2 THEN Ok(q + 1 + g, q + 1, g)
      ELSE IF r <= 2 THEN Ok(q, p, r)
      ELSE Fail

\* C1: on an input that starts with exactly 2 letters, a separator c in
\* {'-', '.'} and optionally one space, grade() reads a digit run R of at most
\* 4 digits; if R is followed by the same c and a run G of 1-2 digits the
\* result is G; otherwise if R has 1-2 digits the result is R, the remainder
\* starting right after R; otherwise grade() fails.
C1_GradeHyphenPeriodForm ==
  (pc = "done" /\ fn = "grade" /\ HyphenPeriodForm(text))
    => res = HyphenPeriodExpected(text)

\* grade() returned G after a series code of 3-4 digits and the same separator
C1_Witness ==
  /\ pc = "done" /\ fn = "grade" /\ HyphenPeriodForm(text)
  /\ res.ok /\ Run(text, 3, Digits) \in 3..4 /\ res.a > 3 + Run(text, 3, Digits)

BareLongRun(t) == Run(t, 0, Digits) > 2

TwoLetterPrefix(t) ==
  Len(t) >= 3 /\ t[1] \in Alphas /\ t[2] \in Alphas /\ t[3] \notin Alphas

PrefixLongRun(t) ==
  /\ TwoLetterPrefix(t)
  /\ \/ Run(t, 2, Digits) > 2
     \/ t[3] = " " /\ Run(t, 3, Digits) > 2

PrefixVeryLongRun(t) ==
  /\ TwoLetterPrefix(t)
  /\ \E p \in 2..4 :
       /\ p <= Len(t)
       /\ Run(t, p, Digits) > 4
       /\ Slice(t, 2, p - 2) \in
            { <<>>, <<" ">>, <<"-">>, <<".">>, <<" "," ">>, <<"-"," ">>, <<"."," ">> }

\* C7: a grade that grade(), max_grade() or get_fpl_grade() returns is one or
\* two decimal digits; a bare digit run longer than 2, a run longer than 2
\* after a 2-letter prefix with no separator or a space, and a run longer than
\* 4 after a prefix never give a grade from the tokenizer.
C7_GradeIsOneOrTwoDigits ==
  pc = "done" =>
    /\ res.ok => /\ res.n \in 1..2
                 /\ \A k \in 1..res.n : text[res.a + k] \in Digits
    /\ (fn = "grade" /\ (BareLongRun(text) \/ PrefixLongRun(text)
                          \/ PrefixVeryLongRun(text)))
         => ~res.ok

\* get_fpl_grade returned the two-digit grade behind a 4-digit series code
C7_Witness ==
  /\ pc = "done" /\ fn = "get_fpl_grade" /\ res.ok /\ res.n = 2
  /\ \E i \in 0..Len(text) : Run(text, i, Digits) = 4 /\ res.a = i + 5

(***************************************************************************)
(* SpecMax: max_grade, one pass of its loop at a time                      *)
(***************************************************************************)
ChainFrags ==
  { <<"g","s","-">>, <<"5">>, <<"1","2">>, <<"/">>, <<" ">>, <<",">>, <<"x">> }

MaxInit ==
  /\ \E k \in 0..MaxChain : \E f \in [1..k -> ChainFrags] : text = Flatten(f)
  /\ fn = "max_grade" /\ pc = "start" /\ res = Fail
  /\ st = NoLoop /\ scan = NoScan /\ span = NoSpan
  /\ input = <<>> /\ records = <<>> /\ args = NoArgs /\ idx = 0 /\ rows = <<>>

\* let (mut s, mut max_grade) = grade(s)?
MaxGradeEnter ==
  /\ pc = "start"
  /\ st' = max_grade_enter(grade(text, 0))
  /\ pc' = IF st'.done THEN "fail" ELSE "loop"
  /\ UNCHANGED <<text, fn, res, scan, span, input, records, args, idx, rows>>

\* one pass of the loop: another token, or the return
MaxGradeIterate ==
  /\ pc = "loop"
  /\ st' = max_grade_iter(text, st)
  /\ pc' = IF st'.done THEN "done" ELSE "loop"
  /\ res' = IF st'.done THEN max_grade_return(st') ELSE res
  /\ UNCHANGED <<text, fn, scan, span, input, records, args, idx, rows>>

MaxNext == MaxGradeEnter \/ MaxGradeIterate

SpecMax == MaxInit /\ [][MaxNext]_vars

\* the grade tokens of the chain at offset i: each token, then optional
\* whitespace and at most one ',' or '/', then the next
RECURSIVE ChainTokens(_, _)
ChainTokens(t, i) ==
  LET g == grade(t, i)
      w == Run(t, g.rest, MultiSpace)
      c == IF g.rest + w < Len(t) /\ t[g.rest + w + 1] \in {",", "/"} THEN 1 ELSE 0
      v == Run(t, g.rest + w + c, MultiSpace)
  IN  IF g.ok THEN <<[a |-> g.a, n |-> g.n]>> \o ChainTokens(t, g.rest + w + c + v)
      ELSE <<>>

LastOf(s) == s[Len(s)]

\* C2: when max_grade() succeeds the grade it returns is the last grade token
\* of the chain, each later token having replaced the earlier one whatever
\* their values.
C2_LastTokenWins ==
  pc = "done" =>
    /\ res.ok
    /\ ChainTokens(text, 0) # <<>>
    /\ [a |-> res.a, n |-> res.n] = LastOf(ChainTokens(text, 0))

\* a chain whose last token is smaller than an earlier one, and was returned
C2_Witness ==
  /\ pc = "done" /\ res.ok
  /\ LET toks == ChainTokens(text, 0)
     IN  /\ Len(toks) >= 3
         /\ \E k \in 1..(Len(toks) - 1) :
              Value(Slice(text, toks[k].a, toks[k].n))
                > Value(Slice(text, res.a, res.n))

\* C3, as claimed: the remainder max_grade() returns starts right after the
\* last grade token; whitespace and a ',' or '/' tried after it are not consumed.
C3_RemainderAfterLastToken ==
  pc = "done" => res.rest = res.a + res.n

\* the offset reached from e over whitespace, at most one ',' or '/', whitespace
AfterSeparator(t, e) ==
  LET w == Run(t, e, MultiSpace)
      c == IF e + w < Len(t) /\ t[e + w + 1] \in {",", "/"} THEN 1 ELSE 0
  IN  e + w + c + Run(t, e + w + c, MultiSpace)

\* C3, amended: the remainder max_grade() returns is the text after the last
\* grade token less the whitespace, the one ',' or '/' and the whitespace that
\* follow that token: the separator tried after the last token is consumed.
C3_RemainderAfterSeparator ==
  pc = "done" =>
    /\ res.rest = AfterSeparator(text, res.a + res.n)
    /\ ~grade(text, res.rest).ok

\* max_grade() returned with a separator consumed behind the last token
C3_Witness ==
  /\ pc = "done" /\ res.ok
  /\ res.rest >= res.a + res.n + 2
  /\ res.rest < Len(text)

(***************************************************************************)
(* SpecScan: get_fpl_grade, one offset of a scan at a time, and the split  *)
(* of the text around the grade it found                                   *)
(***************************************************************************)
ScanFrags ==
  { <<"f","p","l">>, <<"F","u","l","l"," ","P","e","r","f","."," ">>,
    <<"t","a","r","g","e","t">>, <<"7">>, <<"x">>, <<"/","g","s","-">> }

ScanInit ==
  /\ \E k \in 0..MaxFrags : \E f \in [1..k -> ScanFrags] : text = Flatten(f)
  /\ fn = "get_fpl_grade" /\ pc = "scan" /\ res = Fail
  /\ st = NoLoop /\ scan = get_fpl_grade_start /\ span = NoSpan
  /\ input = <<>> /\ records = <<>> /\ args = NoArgs /\ idx = 0 /\ rows = <<>>

\* one pass of the running many_till: the parser at scan.off, then anychar
ScanStep ==
  /\ pc = "scan"
  /\ scan' = get_fpl_grade_step(text, scan.family, scan.off)
  /\ pc' = scan'.pc
  /\ res' = scan'.res
  /\ UNCHANGED <<text, fn, st, span, input, records, args, idx, rows>>

\* print_html's get_match_prefix_and_suffix(&record.text, grade)
Highlight ==
  /\ pc = "some"
  /\ span' = get_match_prefix_and_suffix(text, res.a, res.n)
  /\ pc' = "printed"
  /\ UNCHANGED <<text, fn, res, st, scan, input, records, args, idx, rows>>

ScanNext == ScanStep \/ Highlight

SpecScan == ScanInit /\ [][ScanNext]_vars

Offsets(t) == 0..Len(t)

FplAt(t) == {o \in Offsets(t) : fpl_grade(t, o).ok}

TargetAt(t) == {o \in Offsets(t) : target_grade(t, o).ok}

\* C4: the scan for family 1 runs over the whole text first and the scan for
\* family 2 is attempted only if family 1 fails at every offset; whenever
\* family 1 fully parses at some offset the grade returned is family 1's, even
\* if a 'target' phrase fully parses at an earlier offset; the result is
\* absent only if both scans fail at every offset.
C4_FamilyOrder ==
  /\ (scan.family = "target_grade" /\ scan.off = 0) => FplAt(text) = {}
  /\ scan.pc = "some"
       => /\ res.ok
          /\ FplAt(text) # {} => \E o \in FplAt(text) : res = fpl_grade(text, o)
          /\ FplAt(text) = {} => \E o \in TargetAt(text) : res = target_grade(text, o)
  /\ scan.pc = "none" => (FplAt(text) = {} /\ TargetAt(text) = {})

\* family 1's grade was returned though 'target' parses at an earlier offset,
\* to a grade token that lies before family 1's phrase
C4_Witness ==
  /\ scan.pc = "some" /\ scan.family = "fpl_grade"
  /\ \E o \in TargetAt(text) :
       /\ o < scan.off
       /\ target_grade(text, o).a < scan.off
       /\ res.a > scan.off

\* C5: within one family's scan the parser is tried at offset 0, 1, 2, ... in
\* order; an offset where the parse fails is skipped by advancing exactly one
\* character; the grade returned is the one produced at the smallest offset at
\* which the full parse succeeds; the scan fails only when no offset up to the
\* end of the text succeeds.
C5_LeftmostSuccess ==
  /\ scan.off \in Offsets(text)
  /\ scan.pc = "some"
       => /\ Parse(scan.family, text, scan.off).ok
          /\ \A o \in 0..(scan.off - 1) : ~Parse(scan.family, text, o).ok
          /\ res = Parse(scan.family, text, scan.off)
  /\ (scan.pc = "none" \/ (scan.family = "target_grade" /\ scan.off = 0))
       => \A o \in Offsets(text) :
            /\ ~fpl_grade(text, o).ok
            /\ scan.pc = "none" => ~target_grade(text, o).ok

\* a grade was returned behind an earlier offset where the phrase matched and
\* the grade parse failed
C5_Witness ==
  /\ scan.pc = "some"
  /\ \E o \in 0..(scan.off - 1) : fpl(text, o).ok /\ scan.family = "fpl_grade"

\* C8: when get_fpl_grade(s) returns a grade g, get_match_prefix_and_suffix(s,
\* g) returns (prefix, suffix) with prefix + g + suffix = s, the prefix ending
\* at the offset where the parser consumed the grade token.
C8_MatchSpan ==
  pc = "printed" =>
    /\ span.prefix \o Slice(text, res.a, res.n) \o span.suffix = text
    /\ Len(span.prefix) = res.a
    /\ res = Parse(scan.family, text, scan.off)

\* the text was split at a grade whose digits also occur earlier in the text
C8_Witness ==
  /\ pc = "printed"
  /\ SetMin(Occurrences(text, Slice(text, res.a, res.n))) < res.a

LowerCased(t) == [k \in 1..Len(t) |-> to_lowercase(t[k])]

Keywords ==
  { <<"f","p","l">>, <<"f","u","l","l">>, <<"p","o","l","l">>,
    <<"t","a","r","g","e","t">> }

HasKeyword(t) == \E w \in Keywords : Occurrences(LowerCased(t), w) # {}

\* C9: for a text that contains none of the keywords 'fpl', 'full', 'poll',
\* 'target' in any case, get_fpl_grade returns absent, whatever grade-shaped
\* tokens the text contains.
C9_NoKeywordNoGrade ==
  (scan.pc = "some" \/ res.ok) => HasKeyword(text)

\* both scans ended without a grade on a text with a grade token and no keyword
C9_Witness ==
  /\ scan.pc = "none" /\ ~HasKeyword(text)
  /\ \E o \in Offsets(text) : grade(text, o).ok /\ grade(text, o).n = 2

(***************************************************************************)
(* normalize and dedup_records                                             *)
(***************************************************************************)
\* the ASCII characters of codes 32 to 95
AsciiUpper ==
  <<" ","!","\"","#","$","%","&","'","(",")","*","+",",","-",".","/",
    "0","1","2","3","4","5","6","7","8","9",":",";","<","=",">","?",
    "@","A","B","C","D","E","F","G","H","I","J","K","L","M","N","O",
    "P","Q","R","S","T","U","V","W","X","Y","Z","[","\\","]","^","_">>

\* the ASCII characters of codes 97 to 126
AsciiLower ==
  <<"a","b","c","d","e","f","g","h","i","j","k","l","m","n","o","p",
    "q","r","s","t","u","v","w","x","y","z","{","|","}","~">>

\* the place of c in the tuple s
IndexOf(s, c) == CHOOSE k \in DOMAIN s : s[k] = c

\* the byte of an ASCII character
Code(c) ==
  CASE c = "\t" -> 9
    [] c = "\n" -> 10
    [] c = "\f" -> 12
    [] c = "\r" -> 13
    [] c \in Range(AsciiUpper) -> 31 + IndexOf(AsciiUpper, c)
    [] OTHER -> 96 + IndexOf(AsciiLower, c)

\* Ord for str: -1, 0, 1 for Less, Equal, Greater, byte by byte
RECURSIVE cmp(_, _)
cmp(x, y) ==
  IF x = <<>> \/ y = <<>>
    THEN (IF x = y THEN 0 ELSE IF x = <<>> THEN -1 ELSE 1)
  ELSE IF Code(Head(x)) < Code(Head(y)) THEN -1
  ELSE IF Code(Head(x)) > Code(Head(y)) THEN 1
  ELSE cmp(Tail(x), Tail(y))

\* split_whitespace: the maximal runs of non-whitespace from offset i
RECURSIVE split_whitespace(_, _)
RECURSIVE split_word(_, _)
split_whitespace(t, i) == split_word(t, RunEnd(t, i, WhiteSpace))

split_word(t, j) ==
  IF j = Len(t) THEN <<>>
  ELSE <<Slice(t, j, Run(t, j, Range(t) \ WhiteSpace))>>
       \o split_whitespace(t, j + Run(t, j, Range(t) \ WhiteSpace))

\* join(sep)
RECURSIVE join(_, _)
join(ws, sep) ==
  IF ws = <<>> THEN <<>>
  ELSE IF Len(ws) = 1 THEN ws[1]
  ELSE ws[1] \o sep \o join(Tail(ws), sep)

\* str::to_lowercase
lowercase(t) == [k \in 1..Len(t) |-> to_lowercase(t[k])]

normalize(t) == lowercase(join(split_whitespace(t, 0), <<" ">>))

\* records.iter_mut().for_each(|r| r.text = normalize(&r.text))
normalize_all(rs) ==
  [k \in 1..Len(rs) |-> [id |-> rs[k].id, text |-> normalize(rs[k].text)]]

\* x put behind the records of the sorted rs that are not greater than it
insert_sorted(rs, x) ==
  LET k == Cardinality({j \in 1..Len(rs) : cmp(rs[j].text, x.text) <= 0})
  IN  SubSeq(rs, 1, k) \o <<x>> \o SubSeq(rs, k + 1, Len(rs))

\* records.sort_by(|a, b| a.text.cmp(&b.text)): a stable sort
RECURSIVE sort_by_text(_)
sort_by_text(rs) ==
  IF rs = <<>> THEN <<>>
  ELSE insert_sorted(sort_by_text(SubSeq(rs, 1, Len(rs) - 1)), rs[Len(rs)])

\* records.dedup_by(|a, b| a.text == b.text): a record whose text is that of
\* the record kept before it is removed
RECURSIVE dedup_by_text(_)
dedup_by_text(rs) ==
  IF Len(rs) <= 1 THEN rs
  ELSE IF rs[Len(rs)].text = rs[Len(rs) - 1].text
    THEN dedup_by_text(SubSeq(rs, 1, Len(rs) - 1))
    ELSE Append(dedup_by_text(SubSeq(rs, 1, Len(rs) - 1)), rs[Len(rs)])

\* a variant of dedup_records without the sort
dedup_records_unsorted(rs) == dedup_by_text(normalize_all(rs))

\* a variant of dedup_records without normalize
dedup_records_raw(rs) == dedup_by_text(sort_by_text(rs))

dedup_records(rs) == dedup_by_text(sort_by_text(normalize_all(rs)))

(***************************************************************************)
(* SpecMain: main, one record of the print loop at a time                  *)
(***************************************************************************)
\* most records of an input file
MaxRecs == 3

RecTexts ==
  { <<"A">>,
    <<"a"," "," ">>,
    <<"B">>,
    <<" ","b","\t","A">>,
    <<"F","P","L"," ","7">>,
    <<"f","p","l"," "," ","7">> }

\* get_fpl_grade(..).unwrap_or_default(), and the {grade} of print_html
grade_text(t, r) == IF r.ok THEN Slice(t, r.a, r.n) ELSE <<>>

\* the record print_csv writes
csv_row(record, print_ids, g) ==
  IF print_ids THEN <<record.id, g, record.text>>
  ELSE <<g, record.text>>

\* the cells of the row print_html writes, the text cell as its parts
html_row(record, i, print_ids, r) ==
  IF r.ok
    THEN <<IF print_ids THEN record.id ELSE i + 1, grade_text(record.text, r),
           get_match_prefix_and_suffix(record.text, r.a, r.n).prefix,
           grade_text(record.text, r),
           get_match_prefix_and_suffix(record.text, r.a, r.n).suffix>>
    ELSE <<IF print_ids THEN record.id ELSE i + 1, <<>>, record.text>>

MainInit ==
  /\ \E k \in 0..MaxRecs : \E f \in [1..k -> RecTexts] :
       input = [j \in 1..k |-> [id |-> j, text |-> f[j]]]
  /\ records = input
  /\ args \in [unique : BOOLEAN, html : BOOLEAN]
  /\ pc = "start" /\ idx = 0 /\ rows = <<>>
  /\ text = <<>> /\ fn = "main" /\ res = Fail
  /\ st = NoLoop /\ scan = NoScan /\ span = NoSpan

\* if args.unique { dedup_records(&mut records); }
MainDedup ==
  /\ pc = "start"
  /\ records' = IF args.unique THEN dedup_records(records) ELSE records
  /\ pc' = "print"
  /\ UNCHANGED <<text, fn, res, st, scan, span, input, args, idx, rows>>

\* one pass of print_csv's loop: text is the argument of get_fpl_grade
PrintCsvRecord ==
  /\ pc = "print" /\ ~args.html /\ idx < Len(records)
  /\ text' = records[idx + 1].text
  /\ res' = get_fpl_grade(text')
  /\ rows' = Append(rows, csv_row(records[idx + 1], ~args.unique,
                                  grade_text(text', res')))
  /\ idx' = idx + 1
  /\ UNCHANGED <<fn, pc, st, scan, span, input, records, args>>

\* one pass of print_html's loop: text is the argument of get_fpl_grade
PrintHtmlRecord ==
  /\ pc = "print" /\ args.html /\ idx < Len(records)
  /\ text' = records[idx + 1].text
  /\ res' = get_fpl_grade(text')
  /\ rows' = Append(rows, html_row(records[idx + 1], idx, ~args.unique, res'))
  /\ idx' = idx + 1
  /\ UNCHANGED <<fn, pc, st, scan, span, input, records, args>>

\* the print loop is over: Ok(())
MainReturn ==
  /\ pc = "print" /\ idx = Len(records)
  /\ pc' = "done"
  /\ UNCHANGED <<text, fn, res, st, scan, span, input, records, args, idx, rows>>

MainNext == MainDedup \/ PrintCsvRecord \/ PrintHtmlRecord \/ MainReturn

SpecMain == MainInit /\ [][MainNext]_vars

\* the text of the input record that has the id of the record just handled
InputTextOf(r) == {input[j].text : j \in {k \in 1..Len(input) : input[k].id = r.id}}

\* C6, as claimed: in every run of main, with or without --unique and for CSV
\* and HTML output, the string passed to get_fpl_grade is normalize() of the
\* record's input text.
C6_NormalizedBeforeMatch ==
  idx >= 1 => \E x \in InputTextOf(records[idx]) : text = normalize(x)

\* C6, amended: with --unique the string passed to get_fpl_grade is
\* normalize() of the record's input text, for CSV and HTML output; without
\* --unique it is the record's input text as it was read, not normalized.
C6_NormalizedWhenUnique ==
  idx >= 1 =>
    /\ text = records[idx].text
    /\ args.unique => \E x \in InputTextOf(records[idx]) : text = normalize(x)
    /\ ~args.unique => text = input[idx].text

\* with --unique get_fpl_grade found a grade in a text that normalize() changed
C6_Witness ==
  /\ idx >= 1 /\ args.unique /\ res.ok
  /\ text \notin InputTextOf(records[idx])

\* x is before y in the order of str: byte-wise lexicographic
StrLess(x, y) ==
  \E k \in 1..(Len(y)) :
    /\ k <= Len(x) + 1
    /\ \A j \in 1..(k - 1) : x[j] = y[j]
    /\ k <= Len(x) => Code(x[k]) < Code(y[k])

\* a text in normal form: lower case, no whitespace but single spaces between words
IsNormal(t) ==
  /\ \A k \in 1..Len(t) : t[k] \notin UpperSet /\ t[k] \notin (WhiteSpace \ {" "})
  /\ \A k \in 1..Len(t) : t[k] = " " => (k > 1 /\ k < Len(t) /\ t[k + 1] # " ")

\* C10: after dedup_records every remaining record's text is the normalized
\* form of an input text, there is exactly one remaining record per distinct
\* normalized text of the input, and the records are in ascending order of
\* normalized text.
C10_Dedup ==
  (pc # "start" /\ args.unique) =>
    /\ \A k \in 1..Len(records) :
         /\ \E x \in InputTextOf(records[k]) : records[k].text = normalize(x)
         /\ IsNormal(records[k].text)
    /\ {records[k].text : k \in 1..Len(records)}
         = {normalize(input[j].text) : j \in 1..Len(input)}
    /\ \A k \in 1..(Len(records) - 1) :
         StrLess(records[k].text, records[k + 1].text)

\* three records were reduced to two and put in another order
C10_Witness ==
  /\ pc = "print" /\ args.unique
  /\ Len(input) = 3 /\ Len(records) = 2
  /\ records[1].id = 3

====
